---- MODULE Spec2Model ----
(***************************************************************************)
(* Energy budget of a small satellite over one orbit (powersupply.py):     *)
(* solar power per orbital angle, idle and periodic consumption, and the   *)
(* battery charging loop that steps through the angle sweep.               *)
(*                                                                         *)
(* Units.  The script computes in floating point; the model computes in    *)
(* integers of fixed units, so that every source constant is an integer:   *)
(*   power    0.1 mW   (Pmax 220 mW = 2200, rxtx_idle 0.9 mW = 9)          *)
(*   voltage  0.1 V    (U_bat 3.7 V = 37)                                  *)
(*   current  mA       (power / voltage, quotient rounded down)            *)
(*   charge   mAmin,  time  min,  angle  degree                            *)
(*   sine     1/1000   (np.sin rounded to three decimals)                  *)
(* The sweep resolution (step) is coarser than the script's 1/60 degree.   *)
(***************************************************************************)
EXTENDS Integers, Sequences, FiniteSets

VARIABLES cfg, pc, i, Psun, Pactive, Ptotal, Cnew, C, I, level, branch

vars == <<cfg, pc, i, Psun, Pactive, Ptotal, Cnew, C, I, level, branch>>

(***************************************************************************)
(* Constants of the script.                                                *)
(***************************************************************************)
\* angular step of the sweep in degrees (script: 1.0/60)
step == 4
\* maximum solar cell power
Pmax == 2200
\* fixed-point scale of the sine
SinScale == 1000

gps_idle == 500
mcu_idle == 100
imu_idle == 60
rxtx_idle == 9
cam_idle == 0
ac_idle == 0
env_idle == 10
Pidle == gps_idle + mcu_idle + imu_idle + rxtx_idle + cam_idle + ac_idle + env_idle

\* convert time in orbit (min) to angle (deg): time/90.0 * 360
time2deg(time) == (time * 360) \div 90

\* transceiver
P_rxtx == 2000 - rxtx_idle
T_rxtx == 15
start_rxtx == 60
end_rxtx == start_rxtx + time2deg(T_rxtx)
f_rxtx == 360

\* camera (script: T_cam = 0.03 min, i.e. 0.12 degree, below the resolution
\* of the model's sweep; the model uses one minute)
P_cam == 600 - cam_idle
T_cam == 1
start_cam == 0
end_cam == 180
f_cam == 5

\* attitude correction
P_ac == 660 - ac_idle
T_ac == 1
start_ac == 0
f_ac == 10

\* battery
charging_speed == 5
U_bat == 37

(***************************************************************************)
(* The configurations the sweep is run with.  The script fixes Cmax = 200, *)
(* T = 90, an initial charge of 50 % and all three switches on; the other  *)
(* values are the configurations the claims quantify over.                 *)
(***************************************************************************)
CmaxValues == {-5, 0, 5, 200}
TValues == {90, 180}
InitPctValues == {50, 100}

Configs ==
  [Cmax : CmaxValues, T : TValues, InitPct : InitPctValues,
   rxtx_active : BOOLEAN, cam_active : BOOLEAN, AC_active : BOOLEAN]

(***************************************************************************)
(* The angle sweep: angles = np.arange(0, 360, step).                      *)
(***************************************************************************)
NumAngles == (360 + step - 1) \div step

angles == [k \in 1..NumAngles |-> (k - 1) * step]

(***************************************************************************)
(* np.sin(np.deg2rad(angle)) in thousandths, for whole degrees.            *)
(***************************************************************************)
SinQuarter ==
  << 0, 17, 35, 52, 70, 87, 105, 122, 139, 156,
     174, 191, 208, 225, 242, 259, 276, 292, 309, 326,
     342, 358, 375, 391, 407, 423, 438, 454, 469, 485,
     500, 515, 530, 545, 559, 574, 588, 602, 616, 629,
     643, 656, 669, 682, 695, 707, 719, 731, 743, 755,
     766, 777, 788, 799, 809, 819, 829, 839, 848, 857,
     866, 875, 883, 891, 899, 906, 914, 921, 927, 934,
     940, 946, 951, 956, 961, 966, 970, 974, 978, 982,
     985, 988, 990, 993, 995, 996, 998, 999, 999, 1000,
     1000 >>

SinMilli(angle) ==
  LET a == angle % 360
  IN  IF a <= 90 THEN SinQuarter[a + 1]
      ELSE IF a <= 180 THEN SinQuarter[180 - a + 1]
      ELSE IF a <= 270 THEN -SinQuarter[a - 180 + 1]
      ELSE -SinQuarter[360 - a + 1]

\* Psolar without the test of the sine's sign
Psolar_NoEclipse(angle) == (Pmax * SinMilli(angle)) \div SinScale

\* power coming from the solar cell depending on the angle
Psolar(angle) ==
  IF SinMilli(angle) > 0
    THEN (Pmax * SinMilli(angle)) \div SinScale
    ELSE 0

(***************************************************************************)
(* Periodic consumers: the conditions of the Pactive loop.                 *)
(***************************************************************************)
\* the camera's condition without its absolute window
CamOn_NoWindow(a) ==
  /\ a % f_cam >= start_cam
  /\ a % f_cam < time2deg(T_cam)

CamOn(a) ==
  /\ a % f_cam >= start_cam
  /\ a % f_cam < time2deg(T_cam)
  /\ a >= start_cam
  /\ a < end_cam

\* the transceiver's condition with an inclusive end
RxtxOn_InclusiveEnd(a) ==
  /\ a % f_rxtx >= start_rxtx
  /\ a % f_rxtx <= end_rxtx
  /\ a >= start_rxtx
  /\ a <= end_rxtx

RxtxOn(a) ==
  /\ a % f_rxtx >= start_rxtx
  /\ a % f_rxtx < end_rxtx
  /\ a >= start_rxtx
  /\ a < end_rxtx

AcOn(a) ==
  /\ a % f_ac >= start_ac
  /\ a % f_ac < time2deg(T_ac)

\* Pactive[i] after iteration i of the loop, starting from zero
ActiveAt(c, a) ==
  LET p0 == 0
      p1 == IF c.cam_active /\ CamOn(a) THEN p0 + P_cam ELSE p0
      p2 == IF c.rxtx_active /\ RxtxOn(a) THEN p1 + P_rxtx ELSE p1
      p3 == IF c.AC_active /\ AcOn(a) THEN p2 + P_ac ELSE p2
  IN  p3

(***************************************************************************)
(* Battery quantities derived from the configuration.                      *)
(***************************************************************************)
Cmaxmin(c) == c.Cmax * 60

I_charge(c) == c.Cmax \div charging_speed

Pcharge(c) == U_bat * I_charge(c)

\* Cnew = 0.5*Cmaxmin in the script
InitialCharge(c) == (c.InitPct * Cmaxmin(c)) \div 100

\* T/360.0*step: minutes per step of the sweep
StepDuration(c) == (c.T * step) \div 360

\* the surplus branch without the cap at the nominal charging current
SurplusCurrent_Uncapped(c, Pavail) == Pavail \div U_bat

\* the charging current of the surplus branch (lines 148-156); the branch is
\* entered only with Pavail > Pcharge = U_bat * I_charge
SurplusCurrent(c, Pavail) ==
  IF Pavail \div U_bat >= I_charge(c)
    THEN I_charge(c)
    ELSE Pavail \div U_bat

\* (Cnew/Cmaxmin)*100; numpy's float64 division by zero gives inf or nan
LevelOf(c, charge) ==
  IF Cmaxmin(c) = 0
    THEN IF charge > 0 THEN "inf" ELSE IF charge < 0 THEN "-inf" ELSE "nan"
    ELSE (charge * 100) \div Cmaxmin(c)

(***************************************************************************)
(* The state machine.                                                      *)
(***************************************************************************)
Init ==
  /\ cfg \in Configs
  /\ pc = "psun"
  /\ i = 1
  /\ Psun = << >>
  /\ Pactive = [k \in 1..NumAngles |-> 0]
  /\ Ptotal = << >>
  /\ Cnew = InitialCharge(cfg)
  /\ C = << >>
  /\ I = << >>
  /\ level = << >>
  /\ branch = "none"

\* for angle in angles: Psun.append(Psolar(angle))
PsunStep ==
  /\ pc = "psun"
  /\ Psun' = Append(Psun, Psolar(angles[i]))
  /\ IF i = NumAngles
       THEN pc' = "pactive" /\ i' = 1
       ELSE pc' = pc /\ i' = i + 1
  /\ UNCHANGED <<cfg, Pactive, Ptotal, Cnew, C, I, level, branch>>

\* one iteration of the Pactive loop
PactiveStep ==
  /\ pc = "pactive"
  /\ Pactive' = [Pactive EXCEPT ![i] = Pactive[i] + ActiveAt(cfg, angles[i])]
  /\ IF i = NumAngles
       THEN pc' = "ptotal" /\ i' = 1
       ELSE pc' = pc /\ i' = i + 1
  /\ UNCHANGED <<cfg, Psun, Ptotal, Cnew, C, I, level, branch>>

\* Ptotal = Pidle + Pactive
PtotalStep ==
  /\ pc = "ptotal"
  /\ Ptotal' = [k \in 1..NumAngles |-> Pidle + Pactive[k]]
  /\ pc' = "battery"
  /\ UNCHANGED <<cfg, i, Psun, Pactive, Cnew, C, I, level, branch>>

\* one iteration of the battery loop
BatteryStep ==
  /\ pc = "battery"
  /\ LET angle == angles[i]
         dt == StepDuration(cfg)
     IN  IF Cnew > Cmaxmin(cfg)
           THEN /\ I' = Append(I, 0)
                /\ C' = Append(C, Cmaxmin(cfg))
                /\ branch' = "saturated"
                /\ UNCHANGED <<Cnew, level>>
           ELSE IF Psolar(angle) > Ptotal[i] + Pcharge(cfg)
             THEN LET Pavail == Psolar(angle) - Ptotal[i]
                      cur == SurplusCurrent(cfg, Pavail)
                  IN  /\ Cnew' = Cnew + cur * dt
                      /\ I' = Append(I, cur)
                      /\ C' = Append(C, Cnew')
                      /\ level' = Append(level, LevelOf(cfg, Cnew'))
                      /\ branch' = "surplus"
             ELSE LET Pleft == Ptotal[i] - Psolar(angle)
                      I_discharge == Pleft \div U_bat
                  IN  /\ Cnew' = Cnew - I_discharge * dt
                      /\ I' = Append(I, -I_discharge)
                      /\ C' = Append(C, Cnew')
                      /\ level' = Append(level, LevelOf(cfg, Cnew'))
                      /\ branch' = "deficit"
  /\ IF i = NumAngles
       THEN pc' = "done" /\ i' = i
       ELSE pc' = pc /\ i' = i + 1
  /\ UNCHANGED <<cfg, Psun, Pactive, Ptotal>>

Next == PsunStep \/ PactiveStep \/ PtotalStep \/ BatteryStep

Spec == Init /\ [][Next]_vars

(***************************************************************************)
(* Properties.                                                             *)
(***************************************************************************)
Last(s) == s[Len(s)]

\* number of iterations of the battery loop that have run
StepsDone == IF pc = "done" THEN NumAngles ELSE IF pc = "battery" THEN i - 1 ELSE 0

LoadsComputed == pc \in {"battery", "done"}

Subsystems == {"cam", "rxtx", "ac"}

SumPeaks(S) ==
    (IF "cam" \in S THEN P_cam ELSE 0)
  + (IF "rxtx" \in S THEN P_rxtx ELSE 0)
  + (IF "ac" \in S THEN P_ac ELSE 0)

\* The peak draws and their sums are pairwise different, so Pactive[k]
\* determines which subsystems were added at index k.
Counted(s, k) == \E S \in SUBSET Subsystems : s \in S /\ Pactive[k] = SumPeaks(S)

Enabled(s) ==
  CASE s = "cam" -> cfg.cam_active
    [] s = "rxtx" -> cfg.rxtx_active
    [] s = "ac" -> cfg.AC_active

StartOf(s) == CASE s = "cam" -> start_cam [] s = "rxtx" -> start_rxtx [] s = "ac" -> start_ac

PeriodOf(s) == CASE s = "cam" -> f_cam [] s = "rxtx" -> f_rxtx [] s = "ac" -> f_ac

DurationOf(s) == CASE s = "cam" -> T_cam [] s = "rxtx" -> T_rxtx [] s = "ac" -> T_ac

\* the absolute window [start, end) of the windowed subsystems; the attitude
\* correction has none
InWindow(s, a) ==
  CASE s = "cam" -> start_cam <= a /\ a < end_cam
    [] s = "rxtx" -> start_rxtx <= a /\ a < start_rxtx + time2deg(T_rxtx)
    [] s = "ac" -> TRUE

\* the duty sub-window as the claims state it
DutyAsClaimed(s, a) ==
  /\ StartOf(s) % PeriodOf(s) <= a % PeriodOf(s)
  /\ a % PeriodOf(s) < time2deg(DurationOf(s))

\* the upper end of the duty sub-window: the duty width, and for the
\* transceiver its end angle
DutyEnd(s) ==
  IF s = "rxtx" THEN start_rxtx + time2deg(T_rxtx) ELSE time2deg(DurationOf(s))

DutyAmended(s, a) ==
  /\ StartOf(s) % PeriodOf(s) <= a % PeriodOf(s)
  /\ a % PeriodOf(s) < DutyEnd(s)

ActiveAsClaimed(a) ==
  {s \in Subsystems : Enabled(s) /\ InWindow(s, a) /\ DutyAsClaimed(s, a)}

ActiveAmended(a) ==
  {s \in Subsystems : Enabled(s) /\ InWindow(s, a) /\ DutyAmended(s, a)}

(* C1: for a positive capacity every recorded charge, and the running      *)
(* charge after every step of the battery loop, lies in [0, capacity].     *)
C1_ChargeInRange ==
  cfg.Cmax > 0 =>
    /\ \A k \in 1..Len(C) : 0 <= C[k] /\ C[k] <= Cmaxmin(cfg)
    /\ StepsDone >= 1 => (0 <= Cnew /\ Cnew <= Cmaxmin(cfg))

(* C2: a step of the battery loop whose incoming charge is at or above the *)
(* capacity records current 0 and charge = capacity, sets the running      *)
(* charge to the capacity and adds no charge.                              *)
C2_SaturatedAtCapacity ==
  [][(pc = "battery" /\ cfg.Cmax > 0 /\ Cnew >= Cmaxmin(cfg))
       => /\ I' = Append(I, 0)
          /\ C' = Append(C, Cmaxmin(cfg))
          /\ Cnew' = Cmaxmin(cfg)]_vars

(* C3: after a saturated step the recorded charge stays at the capacity    *)
(* with current 0 while solar power covers the load, and the step at which *)
(* the load exceeds solar power discharges: its recorded current is        *)
(* negative and its charge below the capacity.                             *)
C3_SaturationLeft ==
  [][(pc = "battery" /\ cfg.Cmax > 0 /\ branch = "saturated")
       => IF Ptotal[i] > Psun[i]
            THEN Last(I') < 0 /\ Last(C') < Cmaxmin(cfg)
            ELSE Last(I') = 0 /\ Last(C') = Cmaxmin(cfg)]_vars

(* C4: after k steps of the battery loop the series C, I and level hold k  *)
(* entries each, and level[k] = C[k] / capacity * 100.                     *)
C4_SeriesAligned ==
  cfg.Cmax > 0 =>
    /\ Len(C) = StepsDone
    /\ Len(I) = StepsDone
    /\ Len(level) = StepsDone
    /\ \A k \in 1..Len(level) : level[k] = (C[k] * 100) \div (cfg.Cmax * 60)

(* C5: a configuration with a capacity (and so a charging current) that is *)
(* zero or negative is rejected before the first simulation step: no       *)
(* output entry is produced for it.                                        *)
C5_InvalidRejected ==
  cfg.Cmax <= 0 => (Len(C) = 0 /\ Len(I) = 0 /\ Len(level) = 0)

(* C6: a non-saturated step at which solar power exceeds load + nominal    *)
(* charging power raises the charge by exactly I_charge * (T/360 * step)   *)
(* and records the nominal charging current I_charge (40 mA for capacity   *)
(* 200), never a reduced current.                                          *)
C6_NominalCharge ==
  [][(/\ pc = "battery"
      /\ ~(Cnew > cfg.Cmax * 60)
      /\ Psun[i] > Ptotal[i] + U_bat * (cfg.Cmax \div charging_speed))
       => /\ Cnew' = Cnew + (cfg.Cmax \div charging_speed) * ((cfg.T * step) \div 360)
          /\ I' = Append(I, cfg.Cmax \div charging_speed)
          /\ (cfg.Cmax = 200 => Last(I') = 40)
          /\ C' = Append(C, Cnew')]_vars

C6_Witness ==
  /\ branch = "surplus"
  /\ cfg.Cmax = 200
  /\ cfg.T = 180
  /\ Len(C) >= 2
  /\ Last(I) = 40
  /\ Last(C) = C[Len(C) - 1] + 40 * 2

(* C7 as stated: Ptotal(a) is the idle draw plus the peak draws of the     *)
(* subsystems active at a, a windowed subsystem being active iff enabled,  *)
(* start <= a < end and start mod period <= a mod period < time2deg(       *)
(* duration).                                                              *)
C7_LoadAsClaimed ==
  LoadsComputed =>
    \A k \in 1..NumAngles : Ptotal[k] = Pidle + SumPeaks(ActiveAsClaimed(angles[k]))

(* C7 amended: the same with the duty sub-window of the transceiver ending *)
(* at its end angle start + time2deg(duration); at angle 0 the camera is   *)
(* counted and the transceiver is not; with every periodic subsystem       *)
(* disabled Ptotal is the idle draw.                                       *)
C7_LoadAmended ==
  LoadsComputed =>
    /\ \A k \in 1..NumAngles : Ptotal[k] = Pidle + SumPeaks(ActiveAmended(angles[k]))
    /\ cfg.cam_active => Counted("cam", 1)
    /\ ~Counted("rxtx", 1)
    /\ (~cfg.cam_active /\ ~cfg.rxtx_active /\ ~cfg.AC_active)
         => \A k \in 1..NumAngles : Ptotal[k] = Pidle

C7_Witness ==
  /\ LoadsComputed
  /\ cfg.cam_active /\ cfg.rxtx_active /\ cfg.AC_active
  /\ angles[1] = 0
  /\ Ptotal[1] = Pidle + P_cam + P_ac
  /\ \E k \in 1..NumAngles : angles[k] = start_rxtx /\ Counted("rxtx", k)

(* C8 as stated: a load is not counted at its end angle, nor at a phase    *)
(* equal to its duty width time2deg(duration); it is counted at its start  *)
(* angle and start phase.                                                  *)
C8_ExclusiveAsClaimed ==
  LoadsComputed =>
    \A k \in 1..NumAngles : \A s \in Subsystems :
      LET a == angles[k]
      IN  Enabled(s) =>
            /\ (s = "rxtx" /\ a = start_rxtx + time2deg(T_rxtx)) => ~Counted(s, k)
            /\ (s = "cam" /\ a = end_cam) => ~Counted(s, k)
            /\ a % PeriodOf(s) = time2deg(DurationOf(s)) => ~Counted(s, k)
            /\ (s # "ac" /\ a = StartOf(s)) => Counted(s, k)
            /\ (InWindow(s, a) /\ a % PeriodOf(s) = StartOf(s) % PeriodOf(s))
                 => Counted(s, k)

(* C8 amended: the phase clause holds for the loads whose duty sub-window  *)
(* ends at the duty width (camera, attitude correction); the transceiver's *)
(* ends at its end angle, where it is not counted.                         *)
C8_ExclusiveAmended ==
  LoadsComputed =>
    \A k \in 1..NumAngles : \A s \in Subsystems :
      LET a == angles[k]
      IN  Enabled(s) =>
            /\ (s = "rxtx" /\ a = start_rxtx + time2deg(T_rxtx)) => ~Counted(s, k)
            /\ (s = "cam" /\ a = end_cam) => ~Counted(s, k)
            /\ (s # "rxtx" /\ a % PeriodOf(s) = time2deg(DurationOf(s)))
                 => ~Counted(s, k)
            /\ (s = "rxtx" /\ a % PeriodOf(s) = start_rxtx + time2deg(T_rxtx))
                 => ~Counted(s, k)
            /\ (s # "ac" /\ a = StartOf(s)) => Counted(s, k)
            /\ (InWindow(s, a) /\ a % PeriodOf(s) = StartOf(s) % PeriodOf(s))
                 => Counted(s, k)

C8_Witness ==
  /\ LoadsComputed
  /\ cfg.cam_active /\ cfg.rxtx_active /\ cfg.AC_active
  /\ \E k \in 1..NumAngles :
       angles[k] = start_rxtx + time2deg(T_rxtx) /\ ~Counted("rxtx", k)
  /\ \E k \in 1..NumAngles : angles[k] = end_cam /\ ~Counted("cam", k)
  /\ \E k \in 1..NumAngles :
       angles[k] < end_cam /\ angles[k] % f_cam = time2deg(T_cam) /\ ~Counted("cam", k)
  /\ \E k \in 1..NumAngles : angles[k] % f_ac = time2deg(T_ac) /\ ~Counted("ac", k)
  /\ \E k \in 1..NumAngles : angles[k] = start_rxtx /\ Counted("rxtx", k)

(* C9: Psolar(angle) is Pmax * sin(angle) where the sine is positive and 0 *)
(* elsewhere, so it is 0 in the eclipse half of the orbit and never        *)
(* negative.                                                               *)
C9_SolarPower ==
  \A k \in 1..Len(Psun) :
    LET s == SinMilli(angles[k])
    IN  /\ Psun[k] >= 0
        /\ s <= 0 => Psun[k] = 0
        /\ s > 0 => Psun[k] = (Pmax * s) \div SinScale

C9_Witness ==
  /\ Len(Psun) = NumAngles
  /\ \E k \in 1..NumAngles : SinMilli(angles[k]) > 0 /\ Psun[k] > 0
  /\ \E k \in 1..NumAngles : SinMilli(angles[k]) < 0 /\ Psun[k] = 0

(* C10: a non-saturated step that does not take the surplus-charging case  *)
(* has a shortfall load - solar power >= 0, records a current <= 0 and     *)
(* does not increase the charge.                                           *)
C10_DeficitOnly ==
  [][(/\ pc = "battery"
      /\ cfg.Cmax > 0
      /\ ~(Cnew > Cmaxmin(cfg))
      /\ ~(Psun[i] > Ptotal[i] + Pcharge(cfg)))
       => /\ Ptotal[i] - Psun[i] >= 0
          /\ Last(I') <= 0
          /\ Cnew' <= Cnew]_vars

====
